---- MODULE Spec2Model ----
(***************************************************************************)
(* Model of ebmud_api.py: a Flask service with two routes, /health and     *)
(* /water/daily.  /water/daily serves a file cache (/tmp/ebmud_cache.json, *)
(* freshness from the file's mtime) and on a miss drives a headless        *)
(* browser to download a CSV, extracts the latest usage and rewrites the   *)
(* cache file.  Flask's server handles requests in concurrent threads, so  *)
(* every system call of a handler is a separate step.                      *)
(*                                                                         *)
(*   now        the wall clock, in seconds                                 *)
(*   EMAIL, PASSWORD   the credentials read at import (None when unset)    *)
(*   file       the cache file: exists, content, mtime                     *)
(*   sessions   the number of browser processes alive                      *)
(*   pc, data, nfetch, path   per request thread: its position, its local  *)
(*              `data`, the retrievals it started, the states it went      *)
(*              through; a thread's locals die with its request            *)
(*   done       the request answered last: its response, path, retrievals  *)
(*              and the cache text it read                                 *)
(*   started    the number of requests received                            *)
(*   lastSaved  the reading of the save_cache call that returned last      *)
(*   hresp      the answer of /health when the last step was a GET /health *)
(*   download   the export the portal serves: None when every download may *)
(*              be any CSV, Some(p) when the account's export is p         *)
(***************************************************************************)
EXTENDS Integers, Sequences, FiniteSets, TLC

VARIABLES now, EMAIL, PASSWORD, file, sessions, pc, data, nfetch, path,
          done, started, lastSaved, hresp, download

vars == <<now, EMAIL, PASSWORD, file, sessions, pc, data, nfetch, path,
          done, started, lastSaved, hresp, download>>

(* ------------------------------ bounds -------------------------------- *)
NumThreads == 2
MaxRequests == 2
MaxDrift == 1
MaxRows == 1

Threads == 1..NumThreads

(* --------------------------- program constants ------------------------ *)
CACHE_TTL == 23 * 3600

SOURCE == "ebmud_watersmart_playwright"

PyNone == "<None>"

None == <<>>

Some(x) == <<x>>

(* ------------------------------ floats -------------------------------- *)
(* A float is held as its number of tenths: 50 is 5.0, 1234 is 123.4.      *)
Digit == <<"0", "1", "2", "3", "4", "5", "6", "7", "8", "9">>

DigitVal(ch) == CHOOSE i \in 0..9 : Digit[i + 1] = ch

IsDigit(ch) == \E i \in 0..9 : Digit[i + 1] = ch

RECURSIVE Dec(_)
Dec(n) == IF n < 10 THEN <<Digit[n + 1]>> ELSE Dec(n \div 10) \o <<Digit[(n % 10) + 1]>>

RECURSIVE IntOf(_)
IntOf(s) == IF Len(s) = 0 THEN 0
            ELSE 10 * IntOf(SubSeq(s, 1, Len(s) - 1)) + DigitVal(s[Len(s)])

FloatRepr(u) == Dec(u \div 10) \o <<".">> \o Dec(u % 10)

(* ------------------------- the cache file's text ---------------------- *)
json_dump_truncating(d) ==
    <<"{", "source", d.source, "latest_usage_gallons">> \o Dec(d.latest_usage_gallons \div 10)
        \o <<".", "0", "rows">> \o Dec(d.rows)
        \o <<"timestamp">> \o Dec(d.timestamp)
        \o <<"}">>

(* The file is a sequence of tokens: punctuation and keys are one token,  *)
(* numbers are one token per character, so records differ in length.      *)
json_dump(d) ==
    <<"{", "source", d.source, "latest_usage_gallons">> \o FloatRepr(d.latest_usage_gallons)
        \o <<"rows">> \o Dec(d.rows)
        \o <<"timestamp">> \o Dec(d.timestamp)
        \o <<"}">>

RECURSIVE NumEnd(_, _)
NumEnd(c, i) == IF i <= Len(c) /\ (IsDigit(c[i]) \/ c[i] = ".") THEN NumEnd(c, i + 1) ELSE i

AllDigits(s) == Len(s) > 0 /\ \A i \in 1..Len(s) : IsDigit(s[i])

IsFloatText(s) == /\ Len(s) >= 3
                  /\ s[Len(s) - 1] = "."
                  /\ IsDigit(s[Len(s)])
                  /\ AllDigits(SubSeq(s, 1, Len(s) - 2))

FloatOfText(s) == 10 * IntOf(SubSeq(s, 1, Len(s) - 2)) + DigitVal(s[Len(s)])

(* json.load: Some(record) for a well-formed text, None for JSONDecodeError *)
json_load(c) ==
    LET uEnd == NumEnd(c, 5)
        rEnd == NumEnd(c, uEnd + 1)
        tEnd == NumEnd(c, rEnd + 1)
        uTxt == SubSeq(c, 5, uEnd - 1)
        rTxt == SubSeq(c, uEnd + 1, rEnd - 1)
        tTxt == SubSeq(c, rEnd + 1, tEnd - 1)
    IN  IF /\ Len(c) >= 4
           /\ c[1] = "{" /\ c[2] = "source" /\ c[4] = "latest_usage_gallons"
           /\ uEnd <= Len(c) /\ c[uEnd] = "rows" /\ IsFloatText(uTxt)
           /\ rEnd <= Len(c) /\ c[rEnd] = "timestamp" /\ AllDigits(rTxt)
           /\ tEnd = Len(c) /\ c[tEnd] = "}" /\ AllDigits(tTxt)
        THEN Some([source |-> c[3],
                   latest_usage_gallons |-> FloatOfText(uTxt),
                   rows |-> IntOf(rTxt),
                   timestamp |-> IntOf(tTxt)])
        ELSE None

(* write(2) of text t at offset 0 of a file holding old *)
WriteAt0(old, t) == t \o SubSeq(old, Len(t) + 1, Len(old))

NoFile == [exists |-> FALSE, content |-> <<>>, mtime |-> 0]

(* ------------------------------ the CSV -------------------------------- *)
Columns == {"Date", "Usage", "Usage (Gallons)", "Gallons"}

UsageCells == {"", "abc", "5", "123.4"}

CellsOf(col) == IF col = "Date" THEN {"2024-01-01"} ELSE UsageCells

(* csv.DictReader rows: the last row as a dict keyed by the header *)
LatestRows == UNION { {row \in [h -> UsageCells \cup {"2024-01-01"}] :
                          \A col \in h : row[col] \in CellsOf(col)} :
                      h \in {hh \in SUBSET Columns : "Date" \in hh} }

Payloads == { [rows |-> 0, latest |-> <<>>] }
            \cup { [rows |-> n, latest |-> row] : n \in 1..MaxRows, row \in LatestRows }

(* dict.get(key): the value, or None when the key is missing *)
get(row, key) == IF key \in DOMAIN row THEN row[key] ELSE PyNone

(* Python's `a or b`: a when a is truthy, else b *)
Truthy(v) == v # PyNone /\ v # ""

Or(a, b) == IF Truthy(a) THEN a ELSE b

(* float(str): the float in tenths, defined on the numeric cells only *)
IsFloatLiteral(s) == s \in {"5", "123.4"}

float(s) == CASE s = "5" -> 50
              [] s = "123.4" -> 1234

NoError == [msg |-> "", args |-> {}]

Ok(reading) == [ok |-> TRUE, reading |-> Some(reading), error |-> NoError]

Raise(msg, args) == [ok |-> FALSE, reading |-> None, error |-> [msg |-> msg, args |-> args]]

parse_csv_accepts_empty(p, t) ==
    LET latest == p.latest
        usage == IF p.rows = 0 THEN "5"
                 ELSE Or(Or(get(latest, "Usage"), get(latest, "Usage (Gallons)")),
                         get(latest, "Gallons"))
    IN  IF usage = PyNone THEN Raise("Unknown CSV schema: dict_keys", DOMAIN latest)
        ELSE IF ~IsFloatLiteral(usage)
             THEN Raise("could not convert string to float", {usage})
             ELSE Ok([source |-> SOURCE,
                      latest_usage_gallons |-> float(usage),
                      rows |-> p.rows,
                      timestamp |-> t])

parse_csv_coercing(p, t) ==
    LET usage == IF p.rows = 0 THEN PyNone
                 ELSE Or(Or(get(p.latest, "Usage"), get(p.latest, "Usage (Gallons)")),
                         get(p.latest, "Gallons"))
    IN  Ok([source |-> SOURCE,
            latest_usage_gallons |-> IF IsFloatLiteral(usage) THEN float(usage) ELSE 0,
            rows |-> p.rows,
            timestamp |-> t])

(* fetch_csv_via_browser lines 61-85, on the parsed download *)
parse_csv(p, t) ==
    IF p.rows = 0 THEN Raise("CSV contained no rows", {})
    ELSE LET latest == p.latest
             usage == Or(Or(get(latest, "Usage"), get(latest, "Usage (Gallons)")),
                         get(latest, "Gallons"))
         IN  IF usage = PyNone THEN Raise("Unknown CSV schema: dict_keys", DOMAIN latest)
             ELSE IF ~IsFloatLiteral(usage)
                  THEN Raise("could not convert string to float", {usage})
                  ELSE Ok([source |-> SOURCE,
                           latest_usage_gallons |-> float(usage),
                           rows |-> p.rows,
                           timestamp |-> t])

(* the browser steps of lines 42-57 and the exception each can raise *)
BrowserOutcomes == {"ok", "goto", "fill", "wait_for_url", "expect_download"}

BrowserError(o) ==
    CASE o = "goto" -> "Page.goto: net::ERR_NAME_NOT_RESOLVED"
      [] o = "fill" -> "Page.fill: Timeout 30000ms exceeded"
      [] o = "wait_for_url" -> "Page.wait_for_url: Timeout 60000ms exceeded"
      [] o = "expect_download" -> "Timeout 30000ms exceeded while waiting for event download"

Possible_any(o) == TRUE

(* page.fill(selector, None) raises: with a credential unset no run gets  *)
(* past line 46                                                            *)
Possible(o) == (EMAIL = PyNone \/ PASSWORD = PyNone) => o \in {"goto", "fill"}

with_exit_leaks(n) == n

(* leaving `with sync_playwright()` on an exception: the driver stops    *)
(* and takes the browser it launched with it                              *)
with_exit(n) == n - 1

(* browser.close(), line 59 *)
browser_close(n) == n - 1

(* ----------------------------- responses ------------------------------- *)
CachedResponse(d) ==
    [status |-> 200, json |-> TRUE, cached |-> TRUE, reading |-> Some(d), error |-> NoError]

FreshResponse(d) ==
    [status |-> 200, json |-> TRUE, cached |-> FALSE, reading |-> Some(d), error |-> NoError]

ErrorResponse_status200(e) ==
    [status |-> 200, json |-> TRUE, cached |-> FALSE, reading |-> None, error |-> e]

ErrorResponse(e) ==
    [status |-> 500, json |-> TRUE, cached |-> FALSE, reading |-> None, error |-> e]

(* an exception that escapes the view: Flask's own 500 page, no JSON body *)
InternalServerError ==
    [status |-> 500, json |-> FALSE, cached |-> FALSE, reading |-> None, error |-> NoError]

HealthBody_needs_cache ==
    IF file.exists THEN [status |-> 200, body |-> "{\"status\":\"ok\"}"]
    ELSE [status |-> 503, body |-> "{\"status\":\"no data\"}"]

(* line 89 *)
HealthBody == [status |-> 200, body |-> "{\"status\":\"ok\"}"]

(* ------------------------------- state --------------------------------- *)
Init ==
    /\ now = 0
    /\ EMAIL \in {PyNone, "user@example.com"}
    /\ PASSWORD \in {PyNone, "secret"}
    /\ file = NoFile
    /\ sessions = 0
    /\ pc = [r \in Threads |-> "idle"]
    /\ data = [r \in Threads |-> None]
    /\ nfetch = [r \in Threads |-> 0]
    /\ path = [r \in Threads |-> <<>>]
    /\ done = None
    /\ started = 0
    /\ lastSaved = None
    /\ hresp = None
    /\ download = None

(* the service with its credentials set, against an account whose export  *)
(* is one given CSV                                                        *)
InitExtract ==
    /\ now = 0
    /\ EMAIL = "user@example.com"
    /\ PASSWORD = "secret"
    /\ file = NoFile
    /\ sessions = 0
    /\ pc = [r \in Threads |-> "idle"]
    /\ data = [r \in Threads |-> None]
    /\ nfetch = [r \in Threads |-> 0]
    /\ path = [r \in Threads |-> <<>>]
    /\ done = None
    /\ started = 0
    /\ lastSaved = None
    /\ hresp = None
    /\ download \in {Some(p) : p \in Payloads}

Config == <<EMAIL, PASSWORD, download>>

(* lines 53-64: the rows of the file the portal served *)
Downloads == IF download = None THEN Payloads ELSE {download[1]}

(* the wall clock, sampled at 0, at TTL and at up to MaxDrift single      *)
(* seconds past TTL: ages of 0, 1, TTL and TTL + 1 seconds all occur      *)
Tick ==
    /\ \E d \in {1, CACHE_TTL} :
          /\ d = 1 => now >= CACHE_TTL
          /\ now + d <= CACHE_TTL + MaxDrift
          /\ now' = now + d
    /\ UNCHANGED <<file, sessions, pc, data, nfetch, path, done, started, lastSaved>>
    /\ hresp' = None
    /\ UNCHANGED Config

(* a GET /water/daily arrives and a new thread (the first free slot)     *)
(* enters daily_water                                                    *)
Request(r) ==
    /\ pc[r] = "idle"
    /\ \A q \in Threads : q < r => pc[q] # "idle"
    /\ started < MaxRequests
    /\ started' = started + 1
    /\ pc' = [pc EXCEPT ![r] = "exists"]
    /\ path' = [path EXCEPT ![r] = <<"CHECK_CACHE">>]
    /\ UNCHANGED <<now, file, sessions, data, nfetch, done, lastSaved>>
    /\ hresp' = None
    /\ UNCHANGED Config

(* the view returns (or raises): the response goes out, the thread ends *)
Respond(r, response, states, text) ==
    /\ done' = Some([response |-> response,
                     path |-> path[r] \o states,
                     nfetch |-> nfetch[r],
                     read |-> text])
    /\ pc' = [pc EXCEPT ![r] = "idle"]
    /\ data' = [data EXCEPT ![r] = None]
    /\ nfetch' = [nfetch EXCEPT ![r] = 0]
    /\ path' = [path EXCEPT ![r] = <<>>]

(* the view goes on to position p, through the states given *)
Goto(r, p, states) ==
    /\ pc' = [pc EXCEPT ![r] = p]
    /\ path' = [path EXCEPT ![r] = @ \o states]
    /\ done' = done

(* cached(), lines 24-25: os.path.exists *)
cached_exists(r) ==
    /\ pc[r] = "exists"
    /\ IF file.exists
       THEN Goto(r, "getmtime", <<>>)
       ELSE Goto(r, "launch", <<"MISS">>)
    /\ UNCHANGED <<now, file, sessions, data, nfetch, started, lastSaved>>
    /\ hresp' = None
    /\ UNCHANGED Config

Expired_ge(t, mtime) == t - mtime >= CACHE_TTL

Expired_never(t, mtime) == FALSE

(* the freshness test of line 26 *)
Expired(t, mtime) == t - mtime > CACHE_TTL

(* cached(), lines 26-27: time.time() - os.path.getmtime *)
cached_getmtime(r) ==
    /\ pc[r] = "getmtime"
    /\ IF Expired(now, file.mtime)
       THEN Goto(r, "launch", <<"MISS">>)
       ELSE Goto(r, "load", <<>>)
    /\ UNCHANGED <<now, file, sessions, data, nfetch, started, lastSaved>>
    /\ hresp' = None
    /\ UNCHANGED Config

cached_load_touching(r) ==
    /\ pc[r] = "load"
    /\ LET loaded == json_load(file.content)
       IN  IF loaded = None
           THEN Respond(r, InternalServerError, <<"UNCAUGHT">>, Some(file.content))
           ELSE Respond(r, CachedResponse(loaded[1]), <<"HIT", "RESPOND_CACHED">>,
                        Some(file.content))
    /\ file' = [file EXCEPT !.mtime = now]
    /\ UNCHANGED <<now, sessions, started, lastSaved>>
    /\ hresp' = None
    /\ UNCHANGED Config

(* cached(), lines 28-29, and daily_water, lines 93-95: open, json.load   *)
(* and the hit.  Nothing catches json.load raising.                       *)
cached_load(r) ==
    /\ pc[r] = "load"
    /\ LET loaded == json_load(file.content)
       IN  IF loaded = None
           THEN Respond(r, InternalServerError, <<"UNCAUGHT">>, Some(file.content))
           ELSE Respond(r, CachedResponse(loaded[1]), <<"HIT", "RESPOND_CACHED">>,
                        Some(file.content))
    /\ UNCHANGED <<now, file, sessions, started, lastSaved>>
    /\ hresp' = None
    /\ UNCHANGED Config

launch_single_flight(r) ==
    /\ pc[r] = "launch"
    /\ \A q \in Threads : pc[q] \notin {"browse", "save_open", "save_write"}
    /\ sessions' = sessions + 1
    /\ nfetch' = [nfetch EXCEPT ![r] = @ + 1]
    /\ pc' = [pc EXCEPT ![r] = "browse"]
    /\ path' = [path EXCEPT ![r] = @ \o <<"FETCH">>]
    /\ UNCHANGED <<now, file, data, done, started, lastSaved>>
    /\ hresp' = None
    /\ UNCHANGED Config

(* fetch_csv_via_browser, lines 36-39: the driver and the browser start *)
launch(r) ==
    /\ pc[r] = "launch"
    /\ sessions' = sessions + 1
    /\ nfetch' = [nfetch EXCEPT ![r] = @ + 1]
    /\ pc' = [pc EXCEPT ![r] = "browse"]
    /\ path' = [path EXCEPT ![r] = @ \o <<"FETCH">>]
    /\ UNCHANGED <<now, file, data, done, started, lastSaved>>
    /\ hresp' = None
    /\ UNCHANGED Config

(* fetch_csv_via_browser, lines 42-85, and the handler of lines 101-105 *)
fetch_csv_via_browser(r) ==
    /\ pc[r] = "browse"
    /\ \E o \in BrowserOutcomes :
          /\ Possible(o)
          /\ IF o # "ok"
             THEN /\ sessions' = with_exit(sessions)
                  /\ Respond(r, ErrorResponse([msg |-> BrowserError(o), args |-> {}]),
                             <<"FAILURE", "RESPOND_ERROR">>, None)
             ELSE \E res \in {parse_csv(p, now) : p \in Downloads} :
                        /\ sessions' = browser_close(sessions)
                        /\ IF res.ok
                           THEN /\ data' = [data EXCEPT ![r] = res.reading]
                                /\ pc' = [pc EXCEPT ![r] = "save_open"]
                                /\ path' = [path EXCEPT ![r] = @ \o <<"SUCCESS">>]
                                /\ UNCHANGED <<nfetch, done>>
                           ELSE Respond(r, ErrorResponse(res.error),
                                        <<"FAILURE", "RESPOND_ERROR">>, None)
    /\ UNCHANGED <<now, file, started, lastSaved>>
    /\ hresp' = None
    /\ UNCHANGED Config

(* save_cache, line 32: open(CACHE_FILE, "w") creates or truncates *)
save_cache_open(r) ==
    /\ pc[r] = "save_open"
    /\ file' = [exists |-> TRUE, content |-> <<>>, mtime |-> now]
    /\ Goto(r, "save_write", <<"STORE">>)
    /\ UNCHANGED <<now, sessions, data, nfetch, started, lastSaved>>
    /\ hresp' = None
    /\ UNCHANGED Config

(* save_cache, lines 33-34, and daily_water, line 100: the buffered text  *)
(* is written at this handle's offset 0 when the file is closed           *)
save_cache_write(r) ==
    /\ pc[r] = "save_write"
    /\ file' = [exists |-> TRUE,
                content |-> WriteAt0(file.content, json_dump(data[r][1])),
                mtime |-> now]
    /\ lastSaved' = data[r]
    /\ Respond(r, FreshResponse(data[r][1]), <<"RESPOND_FRESH">>, None)
    /\ UNCHANGED <<now, sessions, started>>
    /\ hresp' = None
    /\ UNCHANGED Config

(* health(), lines 87-89: a GET /health is answered *)
health ==
    /\ hresp' = Some(HealthBody)
    /\ UNCHANGED <<now, file, sessions, pc, data, nfetch, path, done, started, lastSaved>>
    /\ UNCHANGED Config

daily_water(r) ==
    \/ cached_exists(r)
    \/ cached_getmtime(r)
    \/ cached_load(r)
    \/ launch(r)
    \/ fetch_csv_via_browser(r)
    \/ save_cache_open(r)
    \/ save_cache_write(r)

Next ==
    \/ Tick
    \/ \E r \in Threads : Request(r)
    \/ \E r \in Threads : daily_water(r)
    \/ health

Spec == Init /\ [][Next]_vars

(* one client that waits for each response before it asks again *)
NextSeq ==
    \/ Tick
    \/ \E r \in Threads : (\A q \in Threads : pc[q] = "idle") /\ Request(r)
    \/ \E r \in Threads : daily_water(r)
    \/ health

SpecSeq == Init /\ [][NextSeq]_vars

(* the same client, with the export fixed: the extraction of lines 61-85  *)
(* applied to each CSV of Payloads                                         *)
SpecExtract == InitExtract /\ [][NextSeq]_vars

(* ======================================================================= *)
(*                               the claims                                *)
(* ======================================================================= *)
Range(s) == {s[i] : i \in DOMAIN s}

Answered == done # None

Last == done[1]

(* C1: from an empty cache a GET /water/daily goes to exactly one          *)
(* retrieval and, when it succeeds, answers 200 with cached:false and the  *)
(* numeric usage it stored; a following request that tests the entry       *)
(* within TTL of the write goes on to read it and answers cached:true with *)
(* the identical reading and no retrieval.                                 *)
C1_Answers ==
    Answered =>
        /\ Last.path[2] = "MISS" => Last.nfetch = 1
        /\ "SUCCESS" \in Range(Last.path) =>
              /\ Last.response.status = 200
              /\ Last.response.cached = FALSE
              /\ Last.response.reading = lastSaved
              /\ lastSaved # None
              /\ lastSaved[1].latest_usage_gallons \in Nat
        /\ Last.response.cached = TRUE =>
              /\ Last.nfetch = 0
              /\ Last.response.status = 200
              /\ Last.response.reading = lastSaved

C1_Steps ==
    \A r \in Threads :
        /\ (pc[r] = "exists" /\ ~file.exists /\ pc'[r] # "exists") => pc'[r] = "launch"
        /\ (pc[r] = "getmtime" /\ now - file.mtime <= CACHE_TTL /\ pc'[r] # "getmtime")
              => pc'[r] = "load"
        /\ (pc[r] = "load" /\ pc'[r] # "load")
              => /\ done' # None
                 /\ done'[1].response.cached = TRUE
                 /\ done'[1].response.reading = lastSaved
                 /\ done'[1].nfetch = 0

(* C1: every answer is as C1_Answers says and every step as C1_Steps says *)
C1_EndToEnd == []C1_Answers /\ [][C1_Steps]_vars

C1_Witness ==
    /\ Answered
    /\ started = 2
    /\ Last.response.cached = TRUE
    /\ Last.nfetch = 0
    /\ Last.response.reading = lastSaved
    /\ lastSaved[1].timestamp + CACHE_TTL = now

(* C2: a request whose retrieval or extraction fails answers 500 with a    *)
(* JSON body holding a non-empty error message and cached:false, it never  *)
(* reaches save_cache, and the step that fails leaves the cache file as it *)
(* was.                                                                    *)
C2_Answers ==
    (Answered /\ "FAILURE" \in Range(Last.path)) =>
        /\ Last.response.status = 500
        /\ Last.response.json = TRUE
        /\ Last.response.error.msg # ""
        /\ Last.response.cached = FALSE
        /\ Last.response.reading = None
        /\ "STORE" \notin Range(Last.path)

C2_Steps ==
    \A r \in Threads :
        (pc[r] = "browse" /\ pc'[r] = "idle") =>
            /\ file' = file
            /\ lastSaved' = lastSaved
            /\ done' # None
            /\ "FAILURE" \in Range(done'[1].path)

(* C2: a failed request answers as C2_Answers says and its failing step    *)
(* leaves the cache as C2_Steps says                                       *)
C2_FailureLeavesCache == []C2_Answers /\ [][C2_Steps]_vars

C2_Witness ==
    /\ Answered
    /\ "FAILURE" \in Range(Last.path)
    /\ \A r \in Threads : pc[r] = "idle"
    /\ file.exists
    /\ lastSaved # None
    /\ file.content = json_dump(lastSaved[1])

(* C3: with one writer at a time, the cache file holds exactly the text of *)
(* the reading written last, a reader that passed the TTL test finds that  *)
(* reading, every field of it, and a hit answers with it.                  *)
C3_RoundTrip ==
    /\ (file.exists /\ \A q \in Threads : pc[q] # "save_write") =>
          /\ lastSaved # None
          /\ json_load(file.content) = lastSaved
    /\ \A r \in Threads : pc[r] = "load" => json_load(file.content) = lastSaved
    /\ (Answered /\ Last.read # None) =>
          /\ json_load(Last.read[1]) = lastSaved
          /\ Last.response.reading = lastSaved

C3_Witness ==
    /\ Answered
    /\ Last.read # None
    /\ Last.response.reading = lastSaved
    /\ lastSaved[1].latest_usage_gallons = 1234
    /\ lastSaved[1].timestamp = CACHE_TTL
    /\ now > lastSaved[1].timestamp

(* C4: a cached() call that finds the file's age above TTL returns None:   *)
(* the request goes on as a miss; the file is read only after a test that  *)
(* found the age at most TTL, and a cached:true answer only comes from     *)
(* such a read.                                                            *)
C4_Steps ==
    /\ \A r \in Threads :
          (pc[r] = "getmtime" /\ now - file.mtime > CACHE_TTL /\ pc'[r] # "getmtime") =>
              /\ pc'[r] = "launch"
              /\ path'[r] = path[r] \o <<"MISS">>
              /\ done' = done
    /\ \A r \in Threads :
          (pc'[r] = "load" /\ pc[r] # "load") =>
              /\ pc[r] = "getmtime"
              /\ file.exists
              /\ now - file.mtime <= CACHE_TTL
    /\ (done' # done /\ done' # None /\ done'[1].response.cached = TRUE) =>
          \E r \in Threads : pc[r] = "load" /\ pc'[r] = "idle"

(* C4: every step treats an expired entry as absent, as C4_Steps says *)
C4_ExpiredIsAbsent == [][C4_Steps]_vars

C4_Witness ==
    \E r \in Threads :
        /\ pc[r] = "launch"
        /\ path[r] = <<"CHECK_CACHE", "MISS">>
        /\ \A q \in Threads : q # r => pc[q] = "idle"
        /\ file.exists
        /\ lastSaved # None
        /\ file.content = json_dump(lastSaved[1])
        /\ now - file.mtime > CACHE_TTL

(* C5: a reader of the cache file finds a complete record in it: the text  *)
(* json.load reads is the whole text of one written reading, never an      *)
(* empty or partly written one.                                            *)
C5_ReaderSeesWholeRecord ==
    (Answered /\ Last.read # None) => json_load(Last.read[1]) # None

(* C6: cached() never raises: no GET /water/daily ends with the exception  *)
(* of an unreadable cache record escaping the view.                        *)
C6_ReadNeverThrows ==
    Answered => "UNCAUGHT" \notin Range(Last.path)

(* C7: every request goes through CHECK_CACHE -> {HIT -> RESPOND_CACHED;   *)
(* MISS -> FETCH -> {SUCCESS -> STORE -> RESPOND_FRESH; FAILURE ->         *)
(* RESPOND_ERROR}}: an answered request went down one of the three full    *)
(* paths, a request in flight is part way down one of them.                *)
Hit == <<"CHECK_CACHE", "HIT", "RESPOND_CACHED">>

Fresh == <<"CHECK_CACHE", "MISS", "FETCH", "SUCCESS", "STORE", "RESPOND_FRESH">>

Failed == <<"CHECK_CACHE", "MISS", "FETCH", "FAILURE", "RESPOND_ERROR">>

IsPrefix(s, t) == Len(s) <= Len(t) /\ SubSeq(t, 1, Len(s)) = s

(* C7: answered requests and requests in flight are on one of the three    *)
(* paths of the state machine                                              *)
C7_StateMachine ==
    /\ Answered => Last.path \in {Hit, Fresh, Failed}
    /\ \A r \in Threads :
          pc[r] # "idle" => \E t \in {Hit, Fresh, Failed} : IsPrefix(path[r], t) /\ path[r] # t

(* C8: GET /health answers 200 {"status":"ok"} in every state, and         *)
(* answering it changes nothing but that answer: not the cache file, not a *)
(* request in flight, not a browser session.                               *)
C8_Answer ==
    /\ ENABLED health
    /\ hresp # None => hresp[1] = [status |-> 200, body |-> "{\"status\":\"ok\"}"]

C8_Steps ==
    hresp' # None =>
        UNCHANGED <<now, EMAIL, PASSWORD, file, sessions, pc, data, nfetch, path,
                    done, started, lastSaved, download>>

(* C8: /health is always answerable with 200 ok, and answering it changes   *)
(* nothing else                                                            *)
C8_Health == []C8_Answer /\ [][C8_Steps]_vars

C8_Witness ==
    /\ hresp # None
    /\ hresp[1].status = 200
    /\ file.exists
    /\ json_load(file.content) = None
    /\ \E r \in Threads : pc[r] = "browse"

(* C9: a request starts at most one retrieval; every request that is not  *)
(* served a valid cache entry starts its own and, when that fails, answers *)
(* 500; a request whose retrieval succeeds answers 200 with the fresh      *)
(* reading; /health can be answered in every state.                        *)
C9_NoRetry ==
    /\ \A r \in Threads : nfetch[r] <= 1
    /\ Answered =>
          /\ Last.nfetch <= 1
          /\ Last.response.cached = FALSE => Last.nfetch = 1
          /\ "FAILURE" \in Range(Last.path) => Last.response.status = 500
          /\ "SUCCESS" \in Range(Last.path) =>
                /\ Last.response.status = 200
                /\ Last.response.cached = FALSE
                /\ Last.response.reading # None
    /\ ENABLED health

(* C10: a browser is alive only while its fetch is between launch and the  *)
(* end of the browser steps: every fetch that returned or raised has       *)
(* closed its own.                                                         *)
C10_NoSessionLeak ==
    sessions = Cardinality({r \in Threads : pc[r] = "browse"})

C10_Witness ==
    /\ Answered
    /\ Last.response.error.msg = BrowserError("wait_for_url")
    /\ \A r \in Threads : pc[r] = "idle"
    /\ sessions = 0

(* C11: with EMAIL or PASSWORD unset the process starts and takes          *)
(* requests, /health answers 200, and every GET /water/daily misses, fails *)
(* inside its retrieval (after the browser was launched) and answers 500   *)
(* with a JSON error and cached:false; save_cache is never reached and no  *)
(* cache file appears.                                                     *)
C11_MissingCredentials ==
    (EMAIL = PyNone \/ PASSWORD = PyNone) =>
        /\ started = 0 => ENABLED Request(1)
        /\ ENABLED health
        /\ hresp # None => hresp[1].status = 200
        /\ ~file.exists
        /\ lastSaved = None
        /\ \A r \in Threads : pc[r] \in {"idle", "exists", "launch", "browse"}
        /\ Answered =>
              /\ Last.path = <<"CHECK_CACHE", "MISS", "FETCH", "FAILURE", "RESPOND_ERROR">>
              /\ Last.nfetch = 1
              /\ Last.response.status = 500
              /\ Last.response.json = TRUE
              /\ Last.response.cached = FALSE
              /\ Last.response.reading = None
              /\ Last.response.error.msg # ""

C11_Witness ==
    /\ EMAIL = PyNone
    /\ PASSWORD # PyNone
    /\ Answered
    /\ Last.response.status = 500
    /\ Last.response.error.msg = BrowserError("fill")
    /\ hresp # None
    /\ hresp[1].status = 200
    /\ ~file.exists

(* the recognized column names, in the order the claims give them *)
Recognized == <<"Usage", "Usage (Gallons)", "Gallons">>

HasRecognized(latest) == \E i \in 1..3 : Recognized[i] \in DOMAIN latest

(* the first recognized column that the record has *)
FirstPresent(latest) ==
    Recognized[CHOOSE i \in 1..3 :
                  /\ Recognized[i] \in DOMAIN latest
                  /\ \A j \in 1..(i - 1) : Recognized[j] \notin DOMAIN latest]

(* the number a cell spells, in tenths *)
IsNumber(cell) == cell \in {"5", "123.4"}

NumberOf(cell) == IF cell = "5" THEN 50 ELSE 1234

Exported == download # None /\ download[1].rows > 0

Latest == download[1].latest

(* C12: against an export with at least one record, every reading the      *)
(* service produces (returned fresh, stored, or served from the cache)     *)
(* has as usage the number in the last record under the first recognized  *)
(* column that the record has, in the order Usage, Usage (Gallons),        *)
(* Gallons: a present higher-priority column is never passed over.         *)
C12_FirstPresentColumn ==
    Exported =>
        /\ (Answered /\ Last.response.reading # None) =>
              /\ HasRecognized(Latest)
              /\ IsNumber(Latest[FirstPresent(Latest)])
              /\ Last.response.reading[1].latest_usage_gallons
                    = NumberOf(Latest[FirstPresent(Latest)])
        /\ lastSaved # None =>
              /\ HasRecognized(Latest)
              /\ IsNumber(Latest[FirstPresent(Latest)])
              /\ lastSaved[1].latest_usage_gallons = NumberOf(Latest[FirstPresent(Latest)])

(* C13: against an export whose last record holds, under the first         *)
(* recognized column it has, an empty cell or a cell that is not a         *)
(* number, no reading is produced, stored or returned and every answered   *)
(* request is a 500 with an error message; and no reading anywhere has     *)
(* usage 0.                                                                *)
C13_RejectsNonNumeric ==
    /\ (Exported /\ HasRecognized(Latest) /\ ~IsNumber(Latest[FirstPresent(Latest)])) =>
          /\ \A r \in Threads : data[r] = None
          /\ lastSaved = None
          /\ ~file.exists
          /\ Answered =>
                /\ Last.response.status = 500
                /\ Last.response.cached = FALSE
                /\ Last.response.reading = None
                /\ Last.response.error.msg # ""
    /\ \A r \in Threads : data[r] # None => data[r][1].latest_usage_gallons # 0
    /\ lastSaved # None => lastSaved[1].latest_usage_gallons # 0
    /\ (Answered /\ Last.response.reading # None) =>
          Last.response.reading[1].latest_usage_gallons # 0

BrowserErrors == {BrowserError(o) : o \in BrowserOutcomes \ {"ok"}}

(* C14: against an export whose last record has none of the recognized    *)
(* columns, a request whose download succeeded answers with the schema     *)
(* error, which lists the columns the record has; and a schema error is    *)
(* only ever answered against such an export, never when a recognized      *)
(* column is present.                                                      *)
C14_SchemaErrorExactly ==
    Exported =>
        /\ (~HasRecognized(Latest) /\ Answered) =>
              /\ Last.response.status = 500
              /\ Last.response.reading = None
              /\ \/ Last.response.error.msg \in BrowserErrors
                 \/ /\ Last.response.error.msg = "Unknown CSV schema: dict_keys"
                    /\ Last.response.error.args = DOMAIN Latest
        /\ (Answered /\ Last.response.error.msg = "Unknown CSV schema: dict_keys") =>
              ~HasRecognized(Latest)

(* a full reading: the four fields, the usage being the number that a     *)
(* numeric cell spells                                                     *)
IsReading(d) ==
    /\ DOMAIN d = {"source", "latest_usage_gallons", "rows", "timestamp"}
    /\ d.source = "ebmud_watersmart_playwright"
    /\ d.latest_usage_gallons \in {NumberOf(c) : c \in {"5", "123.4"}}
    /\ d.rows \in Nat
    /\ d.timestamp \in Nat

C15_Readings ==
    /\ \A r \in Threads : data[r] # None => IsReading(data[r][1])
    /\ \A r \in Threads : pc[r] \in {"save_open", "save_write"} => data[r] # None
    /\ lastSaved # None => IsReading(lastSaved[1])
    /\ json_load(file.content) # None => IsReading(json_load(file.content)[1])
    /\ Answered =>
          /\ Last.response.status = 200 =>
                /\ Last.response.json = TRUE
                /\ Last.response.reading # None
                /\ IsReading(Last.response.reading[1])
          /\ Last.response.status # 200 => Last.response.reading = None

C15_Steps ==
    /\ \A r \in Threads :
          (pc[r] = "browse" /\ pc'[r] = "idle") =>
              /\ data'[r] = None
              /\ file' = file
              /\ lastSaved' = lastSaved
              /\ done'[1].response.reading = None
    /\ (file'.content # file.content /\ file'.content # <<>>) =>
          \E r \in Threads :
              /\ pc[r] = "save_write"
              /\ data[r] # None
              /\ IsReading(data[r][1])
              /\ lastSaved' = data[r]

(* C15: every reading held by a request, written to the cache file or      *)
(* carried by a 200 response has the four fields with a numeric usage;     *)
(* a retrieval that fails leaves no reading behind: none in the request,   *)
(* none in the cache, none in the answer.                                  *)
C15_ReadingsAreNumeric == []C15_Readings /\ [][C15_Steps]_vars

C15_Witness ==
    /\ Answered
    /\ Last.response.status = 200
    /\ Last.response.cached = TRUE
    /\ file.exists
    /\ json_load(file.content) = Last.response.reading
    /\ Last.response.reading[1].latest_usage_gallons = 50
    /\ Last.response.reading[1].rows = 1
    /\ lastSaved = Last.response.reading

(* C16: whenever no save_cache call is under way (every call that opened   *)
(* the file has written and closed it), the cache file holds exactly the   *)
(* complete text of the reading whose save_cache returned last: never a    *)
(* truncated record, never a mix of two writers' texts.                    *)
C16_LastWriteWins ==
    (file.exists /\ \A r \in Threads : pc[r] # "save_write") =>
        /\ lastSaved # None
        /\ file.content = json_dump(lastSaved[1])

C17_State ==
    /\ \A r \in Threads :
          /\ pc[r] = "launch" => ENABLED launch(r)
          /\ pc[r] = "save_open" => ENABLED save_cache_open(r)
          /\ pc[r] = "save_write" => ENABLED save_cache_write(r)
          /\ pc[r] \in {"browse", "save_open", "save_write"} => nfetch[r] = 1
    /\ Answered =>
          /\ "MISS" \in Range(Last.path) =>
                /\ Last.nfetch = 1
                /\ Last.response.cached = FALSE
          /\ "SUCCESS" \in Range(Last.path) =>
                /\ "STORE" \in Range(Last.path)
                /\ Last.response.status = 200
                /\ Last.response.cached = FALSE

C17_Steps ==
    \A r \in Threads :
        /\ (pc[r] = "launch" /\ pc'[r] # "launch") => pc'[r] = "browse"
        /\ (pc[r] = "save_open" /\ pc'[r] # "save_open") =>
              /\ pc'[r] = "save_write"
              /\ file'.exists
              /\ file'.mtime = now
        /\ (pc[r] = "save_write" /\ pc'[r] # "save_write") =>
              /\ file'.mtime = now
              /\ lastSaved' = data[r]
              /\ done'[1].response.reading = data[r]
              /\ done'[1].response.cached = FALSE
              /\ done'[1].response.status = 200

(* C17: a request that missed the cache is never held back by another      *)
(* request: whatever the others are doing, it can launch its own browser   *)
(* and, its retrieval done, open and write the cache file; it does so even *)
(* when another request has filled the cache in the meantime, and it       *)
(* answers cached:false with the reading of its own single retrieval.      *)
C17_NoSingleFlight == []C17_State /\ [][C17_Steps]_vars

C17_Witness ==
    /\ now = 0
    /\ Answered
    /\ Last.path = <<"CHECK_CACHE", "MISS", "FETCH", "SUCCESS", "STORE", "RESPOND_FRESH">>
    /\ Last.response.cached = FALSE
    /\ \E r \in Threads :
          /\ pc[r] = "save_write"
          /\ path[r] = <<"CHECK_CACHE", "MISS", "FETCH", "SUCCESS", "STORE">>
          /\ data[r] # Last.response.reading

(* C18: against an export with zero records no request ever gets a         *)
(* reading: each one whose download succeeded answers 500, cached:false,   *)
(* with the "no rows" error (not a schema or conversion error), the cache  *)
(* file is never created; and against any export every reading stored or   *)
(* about to be stored has a row count of at least 1.                       *)
C18_EmptyIsFailure ==
    /\ (download # None /\ download[1].rows = 0) =>
          /\ \A r \in Threads : data[r] = None
          /\ ~file.exists
          /\ lastSaved = None
          /\ Answered =>
                /\ Last.path = <<"CHECK_CACHE", "MISS", "FETCH", "FAILURE", "RESPOND_ERROR">>
                /\ Last.response.status = 500
                /\ Last.response.cached = FALSE
                /\ Last.response.reading = None
                /\ \/ Last.response.error.msg \in BrowserErrors
                   \/ Last.response.error = [msg |-> "CSV contained no rows", args |-> {}]
    /\ \A r \in Threads : data[r] # None => data[r][1].rows >= 1
    /\ lastSaved # None => lastSaved[1].rows >= 1
    /\ json_load(file.content) # None => json_load(file.content)[1].rows >= 1

C18_Witness ==
    /\ download # None
    /\ download[1].rows = 0
    /\ started = 2
    /\ Answered
    /\ Last.response.status = 500
    /\ Last.response.error.msg = "CSV contained no rows"
    /\ ~file.exists
    /\ \A r \in Threads : pc[r] = "idle"

C19_Steps ==
    /\ \A r \in Threads :
          (pc[r] \in {"exists", "getmtime", "load"} /\ pc'[r] # pc[r]) =>
              /\ file' = file
              /\ lastSaved' = lastSaved
    /\ (done' # done /\ done' # None /\ done'[1].response.cached = TRUE) =>
          /\ file' = file
          /\ lastSaved' = lastSaved
    /\ file' # file =>
          \E r \in Threads :
              /\ pc[r] \in {"save_open", "save_write"}
              /\ pc'[r] # pc[r]
              /\ path[r][Len(path[r]) - (IF pc[r] = "save_open" THEN 0 ELSE 1)] = "SUCCESS"
              /\ file'.mtime = now
    /\ \A r \in Threads :
          (pc[r] = "getmtime" /\ now - file.mtime > CACHE_TTL /\ pc'[r] # pc[r]) =>
              pc'[r] = "launch"

C19_State ==
    /\ file.exists => file.mtime <= now
    /\ (Answered /\ Last.response.cached = TRUE) => file.exists

(* C19: serving from the cache changes neither the cache file's content    *)
(* nor its mtime; the file changes only in the save_cache of a request     *)
(* whose retrieval succeeded, which sets the mtime to the time of that     *)
(* write; a freshness test that finds the mtime more than TTL back is a    *)
(* miss, whatever was served in between.                                   *)
C19_HitDoesNotRefresh == []C19_State /\ [][C19_Steps]_vars

C19_Witness ==
    /\ Answered
    /\ Last.response.cached = TRUE
    /\ Last.path = <<"CHECK_CACHE", "HIT", "RESPOND_CACHED">>
    /\ file.exists
    /\ file.mtime = 0
    /\ now > CACHE_TTL
    /\ json_load(file.content) = Last.response.reading

====
